---- MODULE Spec2Model ----
(***************************************************************************)
(* Phonon pipeline of src/phonons.py: read_flfrc, asr, dynamical_matrix,   *)
(* band_order and dispersion, run by `size` MPI ranks.                     *)
(*                                                                         *)
(* Conventions of the model                                                *)
(*  - Real numbers are exact rationals <<numerator, denominator>>.         *)
(*  - Lattice vectors and atom positions are integer vectors, so squared   *)
(*    bond lengths are integers; two lengths sqrt(a), sqrt(b) of distinct  *)
(*    small integers differ by far more than eps = 1e-7, hence "within     *)
(*    eps" is equality of the squared lengths.                             *)
(*  - The 3x3 Cartesian block of a force constant is handled elementwise   *)
(*    by the code; the model carries one Cartesian component.              *)
(*  - A rank blocked in a collective has pc[r] = the collective's name;    *)
(*    the collective completes in one step once every rank is there.       *)
(***************************************************************************)
EXTENDS Integers, Sequences, FiniteSets, TLC

\* ------------------------------------------------------------- bounds
MaxSize == 7
MaxDispSize == 2
MaxNat == 2
MaxCells == 2
MaxNq == 3
MaxIbrav == 5

VARIABLES
    prog,       \* entry point that is running: "read", "dyn" or "disp"
    size,       \* comm.size
    pc,         \* per rank: position in the running function
    calls,      \* per rank: collectives issued so far, in order
    ibrav,      \* read_flfrc: lattice-convention code of the header line
    outcome,    \* read_flfrc: how the call ended
    nat, nr, geo,   \* dynamical_matrix: atom count, grid, geometry index
    phid,       \* force constants (after asr, when applied)
    phid_in,    \* force constants as read (kept to state what asr changed)
    asrDone,    \* asr(phid) was applied before dynamical_matrix
    N,          \* per rank: overall 'spring' counter of the loop
    n,          \* per rank: 'spring' counter (per process)
    mine,       \* per rank: values of N the rank processed
    atoms, cells, const,            \* per rank: local buffers [:n]
    dims,                           \* per rank: result of allgather(n)
    allatoms, allcells, allconst,   \* per rank: gathered spring list
    D,          \* last evaluation of calculate_dynamical_matrix
    nq,         \* dispersion: mesh size
    order_arg,  \* dispersion: the flag passed as `order`
    fix,        \* dispersion: the flag `fix`
    eig,        \* per mesh point: which eigen-decomposition the evaluator yields
    my_q, my_w, my_e,   \* per rank: its share of the mesh and its results
    w,          \* per rank: frequency array, (nq, nq, bands) in C order
    e,          \* rank 0: gathered displacements
    order,      \* per rank: band-order array, (nq, nq, bands) in C order
    hist        \* rank 0's intermediate arrays (for the statements below)

readVars == <<ibrav, outcome>>
inputVars == <<nat, nr, geo, phid_in>>
dynVars == <<N, n, mine, atoms, cells, const, dims, allatoms, allcells,
             allconst, D>>
dispInputs == <<nq, order_arg, fix, eig>>
dispVars == <<my_q, my_w, my_e, w, e, order, hist>>

vars == <<prog, size, pc, calls, readVars, inputVars, phid, asrDone, dynVars,
          dispInputs, dispVars>>

Ranks == 0 .. size - 1

\* ------------------------------------------------------------- arithmetic
Abs(x) == IF x < 0 THEN -x ELSE x

RECURSIVE GCD(_, _)
GCD(a, b) == IF b = 0 THEN a ELSE GCD(b, a % b)

\* the rational nu/de (de # 0) in lowest terms with positive denominator
Rat(nu, de) ==
    LET s == IF de < 0 THEN -1 ELSE 1
        g == GCD(Abs(nu), Abs(de))
    IN  <<(s * nu) \div g, (s * de) \div g>>

RatAdd(a, b) == Rat(a[1] * b[2] + b[1] * a[2], a[2] * b[2])
RatMul(a, b) == Rat(a[1] * b[1], a[2] * b[2])
RatInt(k) == <<k, 1>>

RECURSIVE RatSum(_)
RatSum(s) == IF s = <<>> THEN RatInt(0) ELSE RatAdd(Head(s), RatSum(Tail(s)))

RECURSIVE SumSet(_, _)
SumSet(S, f) ==
    IF S = {} THEN 0
    ELSE LET x == CHOOSE y \in S : TRUE IN f[x] + SumSet(S \ {x}, f)

RECURSIVE Concat(_)
Concat(ss) == IF ss = <<>> THEN <<>> ELSE Head(ss) \o Concat(Tail(ss))

\* np.sqrt on the perfect squares the model uses for products of masses
Sqrt(x) == CHOOSE s \in 0 .. x : s * s = x

Dot3(a, b) == a[1] * b[1] + a[2] * b[2] + a[3] * b[3]
Add3(a, b) == <<a[1] + b[1], a[2] + b[2], a[3] + b[3]>>
Sub3(a, b) == <<a[1] - b[1], a[2] - b[2], a[3] - b[3]>>

\* ------------------------------------------------------------- inputs
\* lattice vectors (rows of `at`), Cartesian atom positions `tau` and masses
\* `amass` of the first atoms of three crystals: a chain with an atom half a
\* period along the first axis, a body-centred cubic cell, a skewed cell.
Geometries == <<
    [at |-> << <<2, 0, 0>>, <<0, 4, 0>>, <<0, 0, 6>> >>,
     tau |-> << <<0, 0, 0>>, <<1, 0, 0>>, <<0, 2, 0>> >>,
     amass |-> <<1, 4, 9>>],
    [at |-> << <<2, 0, 0>>, <<0, 2, 0>>, <<0, 0, 2>> >>,
     tau |-> << <<0, 0, 0>>, <<1, 1, 1>>, <<1, 1, 0>> >>,
     amass |-> <<4, 1, 1>>],
    [at |-> << <<3, 0, 0>>, <<1, 3, 0>>, <<0, 0, 5>> >>,
     tau |-> << <<0, 0, 0>>, <<1, 1, 2>>, <<2, 1, 0>> >>,
     amass |-> <<1, 1, 4>>] >>

at == Geometries[geo].at
tau == [na \in 0 .. nat - 1 |-> Geometries[geo].tau[na + 1]]
amass == [na \in 0 .. nat - 1 |-> Geometries[geo].amass[na + 1]]

Grids == {g \in (1 .. MaxCells) \X (1 .. MaxCells) \X (1 .. MaxCells) :
            g[1] * g[2] * g[3] <= MaxCells}

Entries(nat_, nr_) ==
    (0 .. nat_ - 1) \X (0 .. nat_ - 1) \X
    (0 .. nr_[1] - 1) \X (0 .. nr_[2] - 1) \X (0 .. nr_[3] - 1)

\* the numbers of processes the force constants are distributed over
DynSizes == {1, 2, 3, MaxSize}

\* a family of force-constant tensors phid[na1, na2, m1, m2, m3]
Seeds == {0, 1}

ForceConstants(seed, nat_, nr_) ==
    [x \in Entries(nat_, nr_) |->
        ((3 * seed + 2 * x[1] + 5 * x[2] + 3 * x[3] + 4 * x[4] + 6 * x[5]
          + x[1] * x[2]) % 7) - 3]

\* ------------------------------------------------------------- read_flfrc
\* The header line decides the lattice: ibrav 0 reads a table, ibrav 4 builds
\* the hexagonal vectors, any other code prints a message and returns.
ReadHeader ==
    /\ prog = "read"
    /\ pc[0] = "header"
    /\ IF ibrav = 0 \/ ibrav = 4
       THEN /\ pc' = [pc EXCEPT ![0] = "body"]
            /\ UNCHANGED outcome
       ELSE /\ pc' = [pc EXCEPT ![0] = "returned"]
            /\ outcome' = "returned None"
    /\ UNCHANGED <<prog, size, calls, ibrav, nat, nr, geo, phid, phid_in,
                   asrDone, N, n, mine, atoms, cells, const, dims, allatoms,
                   allcells, allconst, D>>
    /\ UNCHANGED <<dispInputs, dispVars>>

\* masses, positions and force constants are read and returned
ReadBody ==
    /\ prog = "read"
    /\ pc[0] = "body"
    /\ \E na \in 1 .. MaxNat, g \in Grids, s \in Seeds :
          /\ nat' = na
          /\ nr' = g
          /\ phid' = ForceConstants(s, na, g)
          /\ phid_in' = ForceConstants(s, na, g)
    /\ pc' = [pc EXCEPT ![0] = "returned"]
    /\ outcome' = "returned data"
    /\ UNCHANGED <<prog, size, calls, ibrav, geo, asrDone, N, n, mine, atoms,
                   cells, const, dims, allatoms, allcells, allconst, D>>
    /\ UNCHANGED <<dispInputs, dispVars>>

\* ------------------------------------------------------------- asr
SelfTerm(na1) == <<na1, na1, 0, 0, 0>>

\* a sum rule that leaves out the periodic images of the atom itself
asrRowOtherAtoms(p, na1) ==
    [p EXCEPT ![SelfTerm(na1)] =
        -SumSet({x \in DOMAIN p : x[1] = na1 /\ x[2] # na1}, p)]

\* phid[na1, na1, 0, 0, 0] = -sum(... if na1 != na2 or m1 or m2 or m3)
asrRow(p, na1) ==
    [p EXCEPT ![SelfTerm(na1)] =
        -SumSet({x \in DOMAIN p : x[1] = na1 /\ x # SelfTerm(na1)}, p)]

RECURSIVE asrFrom(_, _)
asrFrom(p, na1) == IF na1 >= nat THEN p ELSE asrFrom(asrRow(p, na1), na1 + 1)

asr(p) == asrFrom(p, 0)

ApplyAsr ==
    /\ prog = "dyn"
    /\ ~asrDone
    /\ \A r \in Ranks : pc[r] = "build" /\ N[r] = 0
    /\ phid' = asr(phid)
    /\ asrDone' = TRUE
    /\ UNCHANGED <<prog, size, pc, calls, ibrav, outcome, nat, nr, geo,
                   phid_in, N, n, mine, atoms, cells, const, dims, allatoms,
                   allcells, allconst, D>>
    /\ UNCHANGED <<dispInputs, dispVars>>

\* ------------------------------------------------------------- dynamical_matrix
supercells == <<-1, 0, 1>>

NCells == nr[1] * nr[2] * nr[3]

maxdim == (nat * nat * NCells * Len(supercells) * Len(supercells)
           * Len(supercells)) \div size

\* the cell (m1, m2, m3) at which the running counter takes the value k
CellOf(k) == <<(k - 1) \div (nr[2] * nr[3]),
               ((k - 1) \div nr[3]) % nr[2],
               (k - 1) % nr[3]>>

\* N % comm.size != comm.rank: continue
Owns(k, r) == k % size = r

\* a list comprehension or np.array(...): the values, stored
array(f) == <<>> \o f

copies(m) ==
    array([i \in 1 .. Len(supercells) * Len(supercells) * Len(supercells) |->
        <<m[1] + supercells[((i - 1) \div 9) + 1] * nr[1],
          m[2] + supercells[(((i - 1) \div 3) % 3) + 1] * nr[2],
          m[3] + supercells[((i - 1) % 3) + 1] * nr[3]>>])

\* np.dot(copy, at)
shift(copy) ==
    <<copy[1] * at[1][1] + copy[2] * at[2][1] + copy[3] * at[3][1],
      copy[1] * at[1][2] + copy[2] * at[2][2] + copy[3] * at[3][2],
      copy[1] * at[1][3] + copy[2] * at[2][3] + copy[3] * at[3][3]>>

\* shifts = [np.dot(copy, at) for copy in copies]
shifts(cs) == array([i \in DOMAIN cs |-> shift(cs[i])])

\* bonds = [r + tau[na1] - tau[na2] for r in shifts]
bonds(sh, na1, na2) ==
    array([i \in DOMAIN sh |-> Add3(sh[i], Sub3(tau[na1], tau[na2]))])

\* lengths = [np.sqrt(np.dot(r, r)) for r in bonds], squared
lengths2(bs) == array([i \in DOMAIN bs |-> Dot3(bs[i], bs[i])])

\* min(s[i:]) of a non-empty sequence
RECURSIVE MinFrom(_, _)
MinFrom(s, i) ==
    IF i = Len(s) THEN s[i]
    ELSE LET t == MinFrom(s, i + 1) IN IF s[i] < t THEN s[i] ELSE t

\* cs[np.where(ls == mn)], from index i on
RECURSIVE Where(_, _, _, _)
Where(cs, ls, mn, i) ==
    IF i > Len(ls) THEN <<>>
    ELSE IF ls[i] = mn THEN <<cs[i]>> \o Where(cs, ls, mn, i + 1)
    ELSE Where(cs, ls, mn, i + 1)

\* a selection that keeps only the first of the shortest bonds
selectedFirstOnly(cs, ls) == <<Head(Where(cs, ls, MinFrom(ls, 1), 1))>>

\* length = min(lengths)
\* selected = copies[np.where(abs(lengths - length) < eps)]
selected(cs, ls) == Where(cs, ls, MinFrom(ls, 1), 1)

\* phid / (len(selected) * sqrt(amass[na1] * amass[na2]))
Coupling(m, na1, na2, count) ==
    Rat(phid[<<na1, na2, m[1], m[2], m[3]>>],
        count * Sqrt(amass[na1] * amass[na2]))

\* the springs of one pair of atoms at cell m, in the order they are saved
PairSprings(m, cs, sh, na1, na2) ==
    LET sel == selected(cs, lengths2(bonds(sh, na1, na2)))
        C == Coupling(m, na1, na2, Len(sel))
    IN  [i \in 1 .. Len(sel) |->
            [atoms |-> <<na1, na2>>, cells |-> sel[i], const |-> C]]

\* the springs of cell m: the loops over na1 and na2
CellSprings(m) ==
    LET cs == copies(m)
        sh == shifts(cs)
    IN  Concat([p \in 1 .. nat * nat |->
                  PairSprings(m, cs, sh, (p - 1) \div nat, (p - 1) % nat)])

Field(s, f) == [i \in 1 .. Len(s) |-> s[i][f]]

Min(a, b) == IF a < b THEN a ELSE b

\* One pass of rank r through the loop up to and including the next cell it
\* owns (or to the end of the loop when it owns none of the remaining ones).
\* A write at index n >= maxdim raises IndexError.
BuildStep(r) ==
    /\ prog = "dyn"
    /\ pc[r] = "build"
    /\ \E own \in {{k \in N[r] + 1 .. NCells : Owns(k, r)}} :
       \E nxt \in {IF own = {} THEN NCells
                   ELSE CHOOSE k \in own : \A j \in own : k <= j} :
       \E new \in {IF own = {} THEN <<>> ELSE CellSprings(CellOf(nxt))} :
       \E kept \in {SubSeq(new, 1, Min(Len(new), maxdim - n[r]))} :
          /\ atoms' = [atoms EXCEPT ![r] = @ \o Field(kept, "atoms")]
          /\ cells' = [cells EXCEPT ![r] = @ \o Field(kept, "cells")]
          /\ const' = [const EXCEPT ![r] = @ \o Field(kept, "const")]
          /\ n' = [n EXCEPT ![r] = @ + Len(kept)]
          /\ mine' = [mine EXCEPT ![r] = IF own = {} THEN @ ELSE Append(@, nxt)]
          /\ IF n[r] + Len(new) > maxdim
             THEN /\ pc' = [pc EXCEPT ![r] = "raised"]
                  /\ N' = [N EXCEPT ![r] = nxt]
                  /\ UNCHANGED calls
             ELSE IF {k \in nxt + 1 .. NCells : Owns(k, r)} = {}
             THEN /\ pc' = [pc EXCEPT ![r] = "allgather"]
                  /\ N' = [N EXCEPT ![r] = NCells]
                  /\ calls' = [calls EXCEPT ![r] = Append(@, "allgather")]
             ELSE /\ N' = [N EXCEPT ![r] = nxt]
                  /\ UNCHANGED <<pc, calls>>
    /\ UNCHANGED <<prog, size, ibrav, outcome, nat, nr, geo, phid, phid_in,
                   asrDone, dims, allatoms, allcells, allconst, D>>
    /\ UNCHANGED <<dispInputs, dispVars>>

AllAt(label) == \A r \in Ranks : pc[r] = label

\* every rank leaves `label` and issues its next call
Advance(label, next, call) ==
    /\ pc' = [r \in Ranks |-> next]
    /\ calls' = [r \in Ranks |-> IF call = "" THEN calls[r]
                                 ELSE Append(calls[r], call)]

\* what Gatherv and Allgatherv leave in a receive buffer: counts[i] items of
\* the send buffer of rank i - 1, in rank order
Gathered(buf, counts) ==
    Concat([i \in 1 .. size |-> SubSeq(buf[i - 1], 1, counts[i])])

\* dims = np.array(comm.allgather(n))
Allgather ==
    /\ prog = "dyn"
    /\ AllAt("allgather")
    /\ dims' = [r \in Ranks |-> [i \in 1 .. size |-> n[i - 1]]]
    /\ Advance("allgather", "Allgatherv atoms", "Allgatherv")
    /\ UNCHANGED <<prog, size, ibrav, outcome, nat, nr, geo, phid, phid_in,
                   asrDone, N, n, mine, atoms, cells, const, allatoms,
                   allcells, allconst, D>>
    /\ UNCHANGED <<dispInputs, dispVars>>

AllgathervAtoms ==
    /\ prog = "dyn"
    /\ AllAt("Allgatherv atoms")
    /\ \E all \in {Gathered(atoms, dims[0])} : allatoms' = [r \in Ranks |-> all]
    /\ Advance("Allgatherv atoms", "Allgatherv cells", "Allgatherv")
    /\ UNCHANGED <<prog, size, ibrav, outcome, nat, nr, geo, phid, phid_in,
                   asrDone, N, n, mine, atoms, cells, const, dims, allcells,
                   allconst, D>>
    /\ UNCHANGED <<dispInputs, dispVars>>

AllgathervCells ==
    /\ prog = "dyn"
    /\ AllAt("Allgatherv cells")
    /\ \E all \in {Gathered(cells, dims[0])} : allcells' = [r \in Ranks |-> all]
    /\ Advance("Allgatherv cells", "Allgatherv const", "Allgatherv")
    /\ UNCHANGED <<prog, size, ibrav, outcome, nat, nr, geo, phid, phid_in,
                   asrDone, N, n, mine, atoms, cells, const, dims, allatoms,
                   allconst, D>>
    /\ UNCHANGED <<dispInputs, dispVars>>

AllgathervConst ==
    /\ prog = "dyn"
    /\ AllAt("Allgatherv const")
    /\ \E all \in {Gathered(const, dims[0])} : allconst' = [r \in Ranks |-> all]
    /\ Advance("Allgatherv const", "returned", "")
    /\ UNCHANGED <<prog, size, ibrav, outcome, nat, nr, geo, phid, phid_in,
                   asrDone, N, n, mine, atoms, cells, const, dims, allatoms,
                   allcells, D>>
    /\ UNCHANGED <<dispInputs, dispVars>>

\* exp(1j * R.dot(q)) for q with components 0 or pi (qb[i] = 1 means pi)
Phase(R, qb) == IF (R[1] * qb[1] + R[2] * qb[2] + R[3] * qb[3]) % 2 = 0
                THEN 1 ELSE -1

\* D[na1::nat, na2::nat] += C * np.exp(1j * R.dot(q)), summed over the springs
calculate_dynamical_matrix(r, qb) ==
    [p \in (0 .. nat - 1) \X (0 .. nat - 1) |->
        RatSum([k \in 1 .. Len(allatoms[r]) |->
            IF allatoms[r][k] = p
            THEN RatMul(allconst[r][k], RatInt(Phase(allcells[r][k], qb)))
            ELSE RatInt(0)])]

\* wavevectors at which the evaluator is called: zero, and two zone-boundary points
QPoints == {<<0, 0, 0>>, <<1, 0, 0>>, <<1, 1, 1>>}

Evaluate ==
    /\ prog = "dyn"
    /\ AllAt("returned")
    /\ D = <<>>
    /\ \E r \in Ranks, qb \in QPoints :
          D' = [q |-> qb, D |-> calculate_dynamical_matrix(r, qb)]
    /\ UNCHANGED <<prog, size, pc, calls, ibrav, outcome, nat, nr, geo, phid,
                   phid_in, asrDone, N, n, mine, atoms, cells, const, dims,
                   allatoms, allcells, allconst>>
    /\ UNCHANGED <<dispInputs, dispVars>>

\* ------------------------------------------------------------- band_order
\* Eigen-decompositions the evaluator and the solver can yield at a mesh
\* point, after the gauge rotation: frequencies w (ascending) and the
\* displacements e as columns e[mu], in units of 1/17.  The first is the
\* reference, the second has two modes exchanged, the third is degenerate,
\* the fourth mixes the modes.
Samples == <<
    [w |-> <<1, 2, 3>>, e |-> << <<17, 0, 0>>, <<0, 17, 0>>, <<0, 0, 17>> >>],
    [w |-> <<1, 2, 3>>, e |-> << <<17, 0, 0>>, <<0, 0, 17>>, <<0, 17, 0>> >>],
    [w |-> <<1, 2, 2>>, e |-> << <<17, 0, 0>>, <<0, 15, 8>>, <<0, -8, 15>> >>],
    [w |-> <<1, 2, 3>>, e |-> << <<12, 12, 1>>, <<-9, 8, 12>>, <<8, -9, 12>> >>] >>

\* bands = dynamical_matrix().shape[0]
bands == Len(Samples[1].w)

RECURSIVE SeqSum(_)
SeqSum(s) == IF s = <<>> THEN 0 ELSE Head(s) + SeqSum(Tail(s))

\* np.absolute(np.dot(a, b.conj())) of real vectors
overlap(a, b) == Abs(SeqSum([i \in 1 .. Len(a) |-> a[i] * b[i]]))

\* max(range(bands), key=...): the first index of the largest value
ArgMax(vals) ==
    CHOOSE mu \in 1 .. Len(vals) :
        \A j \in 1 .. Len(vals) :
            vals[j] <= vals[mu] /\ (j < mu => vals[j] < vals[mu])

\* np.all(np.absolute(np.diff(w[n])) > 1e-10)
nodegeneracy(f) == \A i \in 1 .. Len(f) - 1 : f[i + 1] # f[i]

\* order[n] from the reference point n0 (band slots are 1 .. bands here,
\* 0 .. bands - 1 in the code)
order_at(es, ord, n0, n_) ==
    [nu \in 1 .. bands |->
        ArgMax([mu \in 1 .. bands |->
                  overlap(es[n0][ord[n0][nu]], es[n_][mu])])]

RECURSIVE band_order_from(_, _, _, _, _)
band_order_from(ws, es, ord, n0, n_) ==
    IF n_ > Len(ws) THEN ord
    ELSE band_order_from(ws, es, Append(ord, order_at(es, ord, n0, n_)),
                         IF nodegeneracy(ws[n_].f) THEN n_ ELSE n0, n_ + 1)

band_order(ws, es) ==
    band_order_from(ws, es, << [nu \in 1 .. bands |-> nu] >>, 1, 2)

\* ------------------------------------------------------------- dispersion
\* q = np.linspace(0, 2 pi, nq, endpoint=False); q -= q[nq // 2]; the mesh
\* flattened in C order, each component in units of 2 pi / nq
q ==
    [k \in 1 .. nq * nq |->
        <<((k - 1) \div nq) - (nq \div 2), ((k - 1) % nq) - (nq \div 2)>>]

sizesNoRemainder == [i \in 1 .. size |-> (nq * nq) \div size]

\* sizes[:] = N // comm.size; sizes[:N % comm.size] += 1
sizes ==
    [i \in 1 .. size |->
        ((nq * nq) \div size) + (IF i - 1 < (nq * nq) % size THEN 1 ELSE 0)]

\* displacement of rank r in a buffer split by `counts`
displ(counts, r) == SeqSum(SubSeq(counts, 1, r))

\* the evaluator and the solver at wavevector qq
SampleAt(qq) ==
    Samples[eig[(qq[1] + (nq \div 2)) * nq + (qq[2] + (nq \div 2)) + 1]]

\* comm.Scatterv((q, 2 * sizes), my_q)
Scatterv ==
    /\ prog = "disp"
    /\ AllAt("Scatterv")
    /\ my_q' = [r \in Ranks |->
                  SubSeq(q, displ(sizes, r) + 1, displ(sizes, r) + sizes[r + 1])]
    /\ Advance("Scatterv", "compute", "")
    /\ UNCHANGED <<prog, size, readVars, inputVars, phid, asrDone, dynVars,
                   dispInputs, my_w, my_e, w, e, order, hist>>

\* the loop of rank r over its points; each frequency row keeps the
\* wavevector it belongs to
Compute(r) ==
    /\ prog = "disp"
    /\ pc[r] = "compute"
    /\ my_w' = [my_w EXCEPT ![r] =
                  [i \in 1 .. Len(my_q[r]) |->
                      [q |-> my_q[r][i], f |-> SampleAt(my_q[r][i]).w]]]
    /\ my_e' = [my_e EXCEPT ![r] =
                  IF order_arg
                  THEN [i \in 1 .. Len(my_q[r]) |-> SampleAt(my_q[r][i]).e]
                  ELSE <<>>]
    /\ pc' = [pc EXCEPT ![r] = IF order_arg THEN "Gatherv w" ELSE "Allgatherv"]
    /\ calls' = [calls EXCEPT ![r] =
                   Append(@, IF order_arg THEN "Gatherv" ELSE "Allgatherv")]
    /\ UNCHANGED <<prog, size, readVars, inputVars, phid, asrDone, dynVars,
                   dispInputs, my_q, w, e, order, hist>>

\* comm.Allgatherv(my_w, (w, sizes * bands)); return w
AllgathervW ==
    /\ prog = "disp"
    /\ AllAt("Allgatherv")
    /\ \E all \in {Gathered(my_w, sizes)} : w' = [r \in Ranks |-> all]
    /\ Advance("Allgatherv", "returned", "")
    /\ UNCHANGED <<prog, size, readVars, inputVars, phid, asrDone, dynVars,
                   dispInputs, my_q, my_w, my_e, e, order, hist>>

\* comm.Gatherv(my_w, (w, sizes * bands))
GathervW ==
    /\ prog = "disp"
    /\ AllAt("Gatherv w")
    /\ w' = [w EXCEPT ![0] = Gathered(my_w, sizes)]
    /\ Advance("Gatherv w", "Gatherv e", "Gatherv")
    /\ UNCHANGED <<prog, size, readVars, inputVars, phid, asrDone, dynVars,
                   dispInputs, my_q, my_w, my_e, e, order, hist>>

\* comm.Gatherv(my_e, (e, sizes * bands ** 2)); the other ranks allocate
\* `order` and go on to Bcast(w)
GathervE ==
    /\ prog = "disp"
    /\ AllAt("Gatherv e")
    /\ e' = Gathered(my_e, sizes)
    /\ pc' = [r \in Ranks |-> IF r = 0 THEN "root" ELSE "Bcast w"]
    /\ calls' = [r \in Ranks |-> IF r = 0 THEN calls[r]
                                 ELSE Append(calls[r], "Bcast")]
    /\ UNCHANGED <<prog, size, readVars, inputVars, phid, asrDone, dynVars,
                   dispInputs, my_q, my_w, my_e, w, order, hist>>

\* a[n] = a[n, ::-1] for n in range(0, nq, 2), on the array in C order
reverse_rows(a) ==
    [k \in 1 .. Len(a) |->
        LET n_ == (k - 1) \div nq
            m_ == (k - 1) % nq
        IN  IF n_ % 2 = 0 THEN a[n_ * nq + (nq - 1 - m_) + 1] ELSE a[k]]

\* np.roll(a, s, axis) for both axes
roll2(a, s) ==
    [k \in 1 .. Len(a) |->
        LET n_ == (k - 1) \div nq
            m_ == (k - 1) % nq
        IN  a[((n_ - s) % nq) * nq + ((m_ - s) % nq) + 1]]

\* bravais.images(n, m, nq): the mesh points equivalent to (n, m) under the
\* hexagonal point group, from the sixfold rotation and the mirror
rot60(p) == <<(-p[2]) % nq, (p[1] + p[2]) % nq>>

images(n_, m_) ==
    LET p0 == <<n_ % nq, m_ % nq>>
        p1 == rot60(p0)
        p2 == rot60(p1)
        p3 == rot60(p2)
        p4 == rot60(p3)
        p5 == rot60(p4)
        rots == {p0, p1, p2, p3, p4, p5}
    IN  rots \cup {<<p[2], p[1]>> : p \in rots}

\* lexicographic order of two tuples of the same length
TupleLess(a, b) ==
    \E i \in 1 .. Len(a) :
        a[i] < b[i] /\ \A j \in 1 .. i - 1 : a[j] = b[j]

\* (ca, a) <= (cb, b) as Python compares the key tuples
KeyLeq(ca, a, cb, b) == ca < cb \/ (ca = cb /\ (a = b \/ TupleLess(a, b)))

\* a choice that takes the least frequent permutation: key (counts[x], x)
consensusLeastCommon(ord, k) ==
    LET img == {p[1] * nq + p[2] + 1 :
                  p \in images((k - 1) \div nq, (k - 1) % nq)}
        seen == {ord[j] : j \in img}
        counts == [x \in seen |-> Cardinality({j \in img : ord[j] = x})]
    IN  CHOOSE x \in seen :
            \A y \in seen : KeyLeq(counts[x], x, counts[y], y)

\* min(counts, key=lambda x: (-counts[x], x)) for the point at flat index k
consensus(ord, k) ==
    LET img == {p[1] * nq + p[2] + 1 :
                  p \in images((k - 1) \div nq, (k - 1) % nq)}
        seen == {ord[j] : j \in img}
        counts == [x \in seen |-> Cardinality({j \in img : ord[j] = x})]
    IN  CHOOSE x \in seen :
            \A y \in seen : KeyLeq(-counts[x], x, -counts[y], y)

\* the loops over n and m, writing order[n, m] in place
RECURSIVE fix_from(_, _)
fix_from(ord, k) ==
    IF k > Len(ord) THEN ord
    ELSE fix_from([ord EXCEPT ![k] = consensus(ord, k)], k + 1)

\* w[n, m] = w[n, m, order[n, m]]
reorder(ws, ord) ==
    [k \in 1 .. Len(ws) |->
        [q |-> ws[k].q, f |-> [nu \in 1 .. bands |-> ws[k].f[ord[k][nu]]]]]

\* what rank 0 does between Gatherv and Bcast
RootArrays ==
    LET w1 == reverse_rows(w[0])
        e1 == reverse_rows(e)
        lin == band_order(w1, e1)
        w2 == reverse_rows(w1)
        o2 == reverse_rows(lin)
        w3 == roll2(w2, nq \div 2)
        o3 == roll2(o2, nq \div 2)
        o4 == IF fix THEN fix_from(o3, 1) ELSE o3
    IN  [path |-> w1, linear |-> lin, natural |-> w2, rolled |-> o3,
         order |-> o4, w |-> reorder(w3, o4)]

RootOrder ==
    /\ prog = "disp"
    /\ pc[0] = "root"
    /\ \E a \in {RootArrays} :
          /\ hist' = a
          /\ w' = [w EXCEPT ![0] = a.w]
          /\ order' = [order EXCEPT ![0] = a.order]
    /\ pc' = [pc EXCEPT ![0] = "Bcast w"]
    /\ calls' = [calls EXCEPT ![0] = Append(@, "Bcast")]
    /\ UNCHANGED <<prog, size, readVars, inputVars, phid, asrDone, dynVars,
                   dispInputs, my_q, my_w, my_e, e>>

BcastKeepsLocal(buf) == buf

\* comm.Bcast(buf): every rank ends with the buffer of rank 0
Bcast(buf) == [r \in Ranks |-> buf[0]]

BcastW ==
    /\ prog = "disp"
    /\ AllAt("Bcast w")
    /\ w' = Bcast(w)
    /\ Advance("Bcast w", "Bcast order", "Bcast")
    /\ UNCHANGED <<prog, size, readVars, inputVars, phid, asrDone, dynVars,
                   dispInputs, my_q, my_w, my_e, e, order, hist>>

BcastOrder ==
    /\ prog = "disp"
    /\ AllAt("Bcast order")
    /\ order' = Bcast(order)
    /\ Advance("Bcast order", "returned", "")
    /\ UNCHANGED <<prog, size, readVars, inputVars, phid, asrDone, dynVars,
                   dispInputs, my_q, my_w, my_e, w, e, hist>>

\* ------------------------------------------------------------- behaviour
Empty(W) == [r \in 0 .. W - 1 |-> <<>>]
Zero(W) == [r \in 0 .. W - 1 |-> 0]

InitRead ==
    /\ prog = "read"
    /\ size = 1
    /\ ibrav \in 0 .. MaxIbrav
    /\ outcome = "running"
    /\ pc = [r \in {0} |-> "header"]
    /\ nat = 0 /\ nr = <<0, 0, 0>> /\ geo = 1
    /\ phid = <<>> /\ phid_in = <<>>

InitDyn ==
    /\ prog = "dyn"
    /\ size \in DynSizes
    /\ ibrav = 0
    /\ outcome = "returned data"
    /\ pc = [r \in 0 .. size - 1 |-> "build"]
    /\ nat \in 1 .. MaxNat
    /\ nr \in Grids
    /\ geo \in 1 .. Len(Geometries)
    /\ \E s \in Seeds : phid = ForceConstants(s, nat, nr)
    /\ phid_in = phid

\* one eigen-decomposition over the mesh, another one at a single point
Fields(nq_) ==
    {[k \in 1 .. nq_ * nq_ |-> IF k = p THEN s1 ELSE s0] :
        s0 \in 1 .. Len(Samples), s1 \in 1 .. Len(Samples),
        p \in 1 .. nq_ * nq_}

InitDisp ==
    /\ prog = "disp"
    /\ size \in 1 .. MaxDispSize
    /\ pc = [r \in 0 .. size - 1 |-> "Scatterv"]
    /\ calls = [r \in 0 .. size - 1 |-> <<"Scatterv">>]
    /\ nq \in 1 .. MaxNq
    /\ order_arg \in BOOLEAN
    /\ fix \in BOOLEAN
    /\ eig \in Fields(nq)

NoDyn ==
    /\ ibrav = 0 /\ outcome = "returned data"
    /\ nat = 1 /\ nr = <<1, 1, 1>> /\ geo = 1
    /\ phid = <<>> /\ phid_in = <<>>

NoDisp ==
    /\ calls = Empty(size)
    /\ nq = 1 /\ order_arg = FALSE /\ fix = FALSE /\ eig = <<>>

Init ==
    /\ \/ InitRead /\ NoDisp
       \/ InitDyn /\ NoDisp
       \/ InitDisp /\ NoDyn
    /\ asrDone = FALSE
    /\ N = Zero(size) /\ n = Zero(size) /\ mine = Empty(size)
    /\ atoms = Empty(size) /\ cells = Empty(size) /\ const = Empty(size)
    /\ dims = Empty(size)
    /\ allatoms = Empty(size) /\ allcells = Empty(size) /\ allconst = Empty(size)
    /\ D = <<>>
    /\ my_q = Empty(size) /\ my_w = Empty(size) /\ my_e = Empty(size)
    /\ w = Empty(size) /\ e = <<>> /\ order = Empty(size) /\ hist = <<>>

Next ==
    \/ ReadHeader
    \/ ReadBody
    \/ ApplyAsr
    \/ \E r \in Ranks : BuildStep(r)
    \/ Allgather
    \/ AllgathervAtoms
    \/ AllgathervCells
    \/ AllgathervConst
    \/ Evaluate
    \/ Scatterv
    \/ \E r \in Ranks : Compute(r)
    \/ AllgathervW
    \/ GathervW
    \/ GathervE
    \/ RootOrder
    \/ BcastW
    \/ BcastOrder

Spec == Init /\ [][Next]_vars

\* ------------------------------------------------------------- statements
Range(s) == {s[i] : i \in DOMAIN s}

Returned == AllAt("returned")

\* rank 0 has finished its branch between Gatherv and Bcast
RootDone ==
    /\ prog = "disp"
    /\ order_arg
    /\ pc[0] \in {"Bcast w", "Bcast order", "returned"}

\* C1: the index assignments cover the range exactly once.  In
\* dynamical_matrix no value of the running counter N is processed twice
\* (by one rank or by two) and, once every rank has left the loop, every N
\* in 1 .. nr1*nr2*nr3 was processed, by the rank N mod size.  In dispersion
\* the shares sum to nq^2, rank r holds sizes[r] points and every flat mesh
\* index is held by exactly one rank.
C1_PartitionsCoverOnce ==
    /\ prog = "dyn" =>
          /\ \A r \in Ranks : \A i \in 1 .. Len(mine[r]) :
                /\ mine[r][i] % size = r
                /\ \A s \in Ranks : \A j \in 1 .. Len(mine[s]) :
                      mine[r][i] = mine[s][j] => (r = s /\ i = j)
          /\ (\A r \in Ranks : pc[r] \notin {"build", "raised"}) =>
                UNION {Range(mine[r]) : r \in Ranks} = 1 .. NCells
    /\ (prog = "disp" /\ ~AllAt("Scatterv")) =>
          /\ SeqSum(sizes) = nq * nq
          /\ \A r \in Ranks : Len(my_q[r]) = sizes[r + 1]
          /\ \A k \in 1 .. nq * nq :
                Cardinality({x \in Ranks \X (1 .. nq * nq) :
                               /\ x[2] <= Len(my_q[x[1]])
                               /\ my_q[x[1]][x[2]] = q[k]}) = 1

\* an uneven split of the mesh over two ranks
C1_Witness ==
    /\ prog = "disp"
    /\ AllAt("compute")
    /\ size = 2
    /\ (nq * nq) % size = 1
    /\ Len(my_q[0]) = Len(my_q[1]) + 1
    /\ Len(my_q[1]) > 0

\* C2: when dispersion returns, every rank holds the same result: without
\* ordering the frequencies of every mesh point in mesh order, with ordering
\* the frequencies and the band order rank 0 computed.
C2_SameResultEverywhere ==
    (prog = "disp" /\ Returned) =>
        \A r \in Ranks :
            /\ Len(w[r]) = nq * nq
            /\ w[r] = w[0]
            /\ order_arg => /\ order[r] = order[0]
                            /\ order[r] = hist.order
                            /\ w[r] = hist.w
            /\ ~order_arg =>
                  \A k \in 1 .. nq * nq :
                      w[r][k] = [q |-> q[k], f |-> SampleAt(q[k]).w]

C2_Witness ==
    /\ prog = "disp"
    /\ Returned
    /\ order_arg
    /\ size >= 2
    /\ nq >= 2
    /\ \E k \in 1 .. nq * nq : order[size - 1][k] # <<1, 2, 3>>

\* the images, among the 27 translations, with the shortest bond
ShortestImages(m, na1, na2) ==
    LET len2(c) == Dot3(Add3(shift(c), Sub3(tau[na1], tau[na2])),
                        Add3(shift(c), Sub3(tau[na1], tau[na2])))
        cs == Range(copies(m))
        ls == {len2(c) : c \in cs}
    IN  {c \in cs : \A l \in ls : len2(c) <= l}

\* the springs of entry x in the list of rank r
SpringsOf(r, x) ==
    {k \in 1 .. Len(allatoms[r]) :
        /\ allatoms[r][k] = <<x[1], x[2]>>
        /\ allcells[r][k][1] % nr[1] = x[3]
        /\ allcells[r][k][2] % nr[2] = x[4]
        /\ allcells[r][k][3] % nr[3] = x[5]}

RECURSIVE RatSumOver(_, _)
RatSumOver(S, f) ==
    IF S = {} THEN RatInt(0)
    ELSE LET x == CHOOSE y \in S : TRUE
         IN  RatAdd(f[x], RatSumOver(S \ {x}, f))

\* C4: in the spring list every rank holds after dynamical_matrix, each
\* force-constant entry has exactly one spring per image of shortest bond
\* length, each carrying phid / (number of these images * sqrt(mass_A *
\* mass_B)), so that the couplings times sqrt(mass_A * mass_B) sum to phid.
C4_MinimumImageSplit ==
    (prog = "dyn" /\ Returned) =>
        /\ \A r \in Ranks :
              /\ allatoms[r] = allatoms[0]
              /\ allcells[r] = allcells[0]
              /\ allconst[r] = allconst[0]
        /\ Len(allatoms[0]) = Len(allcells[0])
        /\ Len(allatoms[0]) = Len(allconst[0])
        /\ \A x \in DOMAIN phid :
              LET m == <<x[3], x[4], x[5]>>
                  img == ShortestImages(m, x[1], x[2])
                  ks == SpringsOf(0, x)
                  sq == Sqrt(amass[x[1]] * amass[x[2]])
              IN  /\ Cardinality(ks) = Cardinality(img)
                  /\ {allcells[0][k] : k \in ks} = img
                  /\ \A k \in ks :
                        allconst[0][k] = Rat(phid[x], Cardinality(img) * sq)
                  /\ RatSumOver(ks, [k \in ks |->
                        RatMul(allconst[0][k], RatInt(sq))]) = RatInt(phid[x])

\* a bond on the supercell boundary: two springs of half the coupling
C4_Witness ==
    /\ prog = "dyn"
    /\ Returned
    /\ size >= 2
    /\ \E x \in DOMAIN phid :
          /\ phid[x] # 0
          /\ Cardinality(ShortestImages(<<x[3], x[4], x[5]>>, x[1], x[2])) = 2
          /\ Cardinality(SpringsOf(0, x)) = 2
          /\ \A k \in SpringsOf(0, x) :
                RatAdd(allconst[0][k], allconst[0][k]) =
                    Rat(phid[x], Sqrt(amass[x[1]] * amass[x[2]]))

SelfTerms == {SelfTerm(na1) : na1 \in 0 .. nat - 1}

\* C5: after asr the self-coupling of every atom is the negated sum of its
\* other couplings, the couplings of every atom sum to zero, no other entry
\* has changed, and the dynamical matrix at the zero wavevector maps the
\* mass-weighted uniform translation to zero.
C5_AcousticSumRule ==
    (prog = "dyn" /\ asrDone) =>
        /\ \A na1 \in 0 .. nat - 1 :
              /\ phid[SelfTerm(na1)] =
                    -SumSet({x \in DOMAIN phid :
                               x[1] = na1 /\ x # SelfTerm(na1)}, phid)
              /\ SumSet({x \in DOMAIN phid : x[1] = na1}, phid) = 0
        /\ \A x \in DOMAIN phid \ SelfTerms : phid[x] = phid_in[x]
        /\ (D # <<>> /\ D.q = <<0, 0, 0>>) =>
              \A na1 \in 0 .. nat - 1 :
                  RatSum([i \in 1 .. nat |->
                      RatMul(D.D[<<na1, i - 1>>],
                             RatInt(Sqrt(amass[i - 1])))]) = RatInt(0)

C5_Witness ==
    /\ prog = "dyn"
    /\ asrDone
    /\ D # <<>>
    /\ D.q = <<0, 0, 0>>
    /\ nat = 2
    /\ NCells = 2
    /\ size >= 2
    /\ \E x \in SelfTerms : phid[x] # phid_in[x] /\ phid[x] # 0

\* flat indices of the images of the mesh point at flat index k
ImagesOf(k) ==
    {p[1] * nq + p[2] + 1 : p \in images((k - 1) \div nq, (k - 1) % nq)}

\* the point d is the only one of its images with another permutation
LoneDeviation(pre, d) ==
    /\ Cardinality(ImagesOf(d)) = 6
    /\ \A j \in ImagesOf(d) \ {d} : pre[j] # pre[d]
    /\ \A i \in ImagesOf(d) \ {d} : \A j \in ImagesOf(d) \ {d} : pre[i] = pre[j]

\* C6: with fix, the order of every mesh point becomes the permutation seen
\* most often among its images before the pass (of equally frequent ones
\* the lexicographically smallest); where all images agree nothing changes,
\* and a point that alone deviates within a 6-point orbit takes the
\* permutation of the other five, which keep theirs.
C6_SymmetryConsensus ==
    (RootDone /\ fix) =>
        \A k \in 1 .. nq * nq :
            LET pre == hist.rolled
                post == hist.order
                img == ImagesOf(k)
                cnt(x) == Cardinality({j \in img : pre[j] = x})
            IN  /\ post[k] \in {pre[j] : j \in img}
                /\ \A j \in img :
                      \/ cnt(post[k]) > cnt(pre[j])
                      \/ cnt(post[k]) = cnt(pre[j]) /\ ~TupleLess(pre[j], post[k])
                /\ (\A j \in img : pre[j] = pre[k]) => post[k] = pre[k]
                /\ LoneDeviation(pre, k) =>
                      \A j \in img : \A i \in img \ {k} : post[j] = pre[i]

C6_Witness ==
    /\ RootDone
    /\ fix
    /\ \E d \in 1 .. nq * nq :
          /\ LoneDeviation(hist.rolled, d)
          /\ hist.order[d] # hist.rolled[d]
          /\ \A j \in ImagesOf(d) \ {d} : hist.order[j] = hist.rolled[j]

\* C3 (as claimed): the band order of every mesh point, from band_order and
\* after the consensus pass, is a permutation of the band slots.
C3_OrderIsPermutation ==
    RootDone =>
        \A k \in 1 .. nq * nq :
            /\ Range(hist.linear[k]) = 1 .. bands
            /\ Range(hist.order[k]) = 1 .. bands

\* C7 (as claimed): with ordering, for every nq the second reversal of the
\* even rows restores the mesh order and the returned arrays have the zero
\* wavevector at grid index [0, 0].
C7_ZeroWavevectorFirst ==
    (prog = "disp" /\ order_arg /\ Returned) =>
        /\ \A k \in 1 .. nq * nq : hist.natural[k].q = q[k]
        /\ \A r \in Ranks : w[r][1].q = <<0, 0>>

\* C8 (as claimed): a lattice code other than 0 and 4 makes read_flfrc
\* raise an error, with no force constants produced.
C8_UnknownLatticeRaises ==
    (prog = "read" /\ ibrav \notin {0, 4} /\ pc[0] = "returned") =>
        /\ phid = <<>>
        /\ outcome = "raised"

IsPrefix(a, b) == Len(a) <= Len(b) /\ SubSeq(b, 1, Len(a)) = a

\* a rank waits in the allgather for a rank that left the loop by an
\* IndexError and will never call it
Blocked ==
    \E r \in Ranks : \E s \in Ranks :
        pc[r] = "allgather" /\ pc[s] = "raised"

\* C9 (as claimed): all ranks issue the same sequence of collectives (the
\* ones of the function that runs), and no rank blocks forever: no rank
\* ever waits in a collective that another rank will never call.
C9_NoRankBlocksForever ==
    /\ \A r \in Ranks : \A s \in Ranks :
          IsPrefix(calls[r], calls[s]) \/ IsPrefix(calls[s], calls[r])
    /\ Returned =>
          \A r \in Ranks :
             calls[r] =
                IF prog = "dyn"
                THEN <<"allgather", "Allgatherv", "Allgatherv", "Allgatherv">>
                ELSE IF prog = "read" THEN <<>>
                ELSE IF order_arg
                THEN <<"Scatterv", "Gatherv", "Gatherv", "Bcast", "Bcast">>
                ELSE <<"Scatterv", "Allgatherv">>
    /\ ~Blocked

\* C10 (as claimed): no rank writes more springs than its buffers hold.
C10_BufferNeverOverflows ==
    prog = "dyn" => \A r \in Ranks : pc[r] # "raised" /\ n[r] <= maxdim

====
